---- MODULE Spec2Model ----
(***************************************************************************)
(* The combined GET/POST greeting application of                           *)
(* notebooks/fast-api-greeting-server.ipynb (the "Putting It All Together" *)
(* cell): a FastAPI app with a CORS middleware restricted to three         *)
(* origins, a query-bound GET /greet and a JSON-body-bound POST /greet.    *)
(*                                                                         *)
(* Text is modelled as a sequence of characters.  A character that is      *)
(* written differently on the wire (percent-encoded in a query string,     *)
(* backslash-escaped in JSON) is one element of the sequence, so decoding  *)
(* and encoding are real conversions.                                      *)
(***************************************************************************)
EXTENDS Integers, Sequences, FiniteSets, TLC

\* ------------------------------------------------------------------ bounds

\* Number of completed exchanges the history keeps.
MaxServed == 2

\* Longest name (in characters) a request carries.
MaxNameLen == 2

\* ------------------------------------------------------------- text helpers

None == "<none>"

StringsOver(alphabet, n) == UNION {[1..k -> alphabet] : k \in 0..n}

MapSeq(f(_), s) == [i \in 1..Len(s) |-> f(s[i])]

\* Characters of a query string as they travel in the URL.
RawQueryChars == {"a", "A", "+", "%22", "%2B"}

\* Characters of a JSON string literal as they travel in a body.
RawJsonChars == {"a", "A", " ", "\\\"", "\\\\"}

\* urllib.parse.unquote_plus on one character: "+" is a space, %XX is the
\* character with that code.
unquote_plus_char(c) ==
    CASE c = "+"   -> " "
      [] c = "%22" -> "\""
      [] c = "%2B" -> "+"
      [] OTHER     -> c

unquote_plus(raw) == MapSeq(unquote_plus_char, raw)

\* json string literal -> text, one character at a time.
json_unescape_char(c) ==
    CASE c = "\\\"" -> "\""
      [] c = "\\\\" -> "\\"
      [] OTHER      -> c

json_unescape(raw) == MapSeq(json_unescape_char, raw)

\* text -> json string literal, as json.dumps writes it.
json_escape_char(c) ==
    CASE c = "\"" -> "\\\""
      [] c = "\\" -> "\\\\"
      [] OTHER    -> c

json_escape(text) == MapSeq(json_escape_char, text)

\* f"Hello {name}"
HelloPrefix == <<"H", "e", "l", "l", "o", " ">>

\* ------------------------------------------------------------- JSON values

\* A body is what json.loads sees: nothing, bytes that are no JSON document,
\* a JSON document that is no object, or a JSON object given by its members
\* in the order they are written.
EmptyBody == [form |-> "empty", fields |-> <<>>]
GarbageBody == [form |-> "garbage", fields |-> <<>>]
ArrayBody == [form |-> "array", fields |-> <<>>]
ObjectBody(fields) == [form |-> "object", fields |-> fields]
TextBody(text) == [form |-> "text", fields |-> <<[key |-> "", type |-> "text", raw |-> <<text>>]>>]

JsonField(k, t, raw) == [key |-> k, type |-> t, raw |-> raw]

\* json.loads raises on an empty or malformed document.
json_loads_ok(body) == body.form \in {"array", "object"}

HasKey(fields, k) == \E i \in 1..Len(fields) : fields[i].key = k

\* dict lookup after json.loads: the last member written with the key wins.
LastWithKey(fields, k) ==
    fields[CHOOSE i \in 1..Len(fields) :
              /\ fields[i].key = k
              /\ \A j \in (i + 1)..Len(fields) : fields[j].key # k]

\* The decoded text of member k of a JSON object body.
json_member_text(body, k) == json_unescape(LastWithKey(body.fields, k).raw)

\* ---------------------------------------------------------------- requests

AllowedOrigins ==
    <<"http://localhost:8000", "http://127.0.0.1:8000", "https://chrwittm.github.io">>

\* Origins a browser may send that are not entries of the allow-list: the
\* same host with another scheme, with another port, and the opaque origin
\* of a page opened from file://.
ForeignOrigins == {"https://localhost:8000", "http://localhost:3000", "null"}

Origins == {None} \cup {AllowedOrigins[i] : i \in 1..Len(AllowedOrigins)} \cup ForeignOrigins

RawQueryStrings == StringsOver(RawQueryChars, MaxNameLen)
RawJsonStrings == StringsOver(RawJsonChars, MaxNameLen)

QueryField(k, v) == [key |-> k, value |-> v]

NameQueries == {<<QueryField("name", v)>> : v \in RawQueryStrings}

Queries ==
    {<<>>}
    \cup NameQueries
    \cup {<<QueryField("name", <<"a">>), QueryField("name", v)>> : v \in RawQueryStrings}
    \cup {<<QueryField("name", v), QueryField("lang", <<"A">>)>> : v \in RawQueryStrings}
    \cup {<<QueryField(k, <<"a">>)>> : k \in {"lang", "Name"}}

FewQueries == {<<>>, <<QueryField("name", <<"a">>)>>}

NameBodies == {ObjectBody(<<JsonField("name", "string", v)>>) : v \in RawJsonStrings}

Bodies ==
    {EmptyBody, GarbageBody, ArrayBody, ObjectBody(<<>>)}
    \cup NameBodies
    \cup {ObjectBody(<<JsonField("name", "string", v), JsonField("extra", "string", <<"A">>)>>) :
            v \in RawJsonStrings}
    \cup {ObjectBody(<<JsonField("name", t, <<"1", "2", "3">>)>>) : t \in {"number"}}
    \cup {ObjectBody(<<JsonField("name", "null", <<>>)>>),
          ObjectBody(<<JsonField("Name", "string", <<"a">>)>>)}

FewBodies == {EmptyBody, GarbageBody, ObjectBody(<<JsonField("name", "string", <<"a">>)>>)}

ContentTypes == {None, "application/json", "text/plain"}

Paths == {"/greet", "/"}

Request(m, p, q, o, acrm, acrh, ct, b) ==
    [method |-> m, path |-> p, query |-> q, origin |-> o,
     access_control_request_method |-> acrm,
     access_control_request_headers |-> acrh,
     content_type |-> ct, body |-> b]

GetRequests ==
    {Request("GET", p, q, o, None, None, "application/json", b) :
        p \in Paths, q \in Queries, o \in Origins, b \in FewBodies}

PostRequests ==
    {Request("POST", p, q, o, None, None, ct, b) :
        p \in Paths, q \in FewQueries, o \in Origins, ct \in ContentTypes, b \in Bodies}

OptionsRequests ==
    {Request("OPTIONS", p, q, o, acrm, acrh, None, EmptyBody) :
        p \in Paths, q \in FewQueries, o \in Origins,
        acrm \in {None, "GET", "POST", "TRACE"}, acrh \in {None, "content-type"}}

OtherRequests ==
    {Request(m, p, q, o, None, None, "application/json", b) :
        m \in {"PUT", "DELETE", "PATCH", "HEAD"}, p \in Paths, q \in FewQueries,
        o \in Origins, b \in FewBodies}

Requests == GetRequests \cup PostRequests \cup OptionsRequests \cup OtherRequests

\* ------------------------------------------------------------ HTTP helpers

\* Header dictionaries map a header name to its comma-separated items.
NoHeaders == <<>>

\* dict.update: the entries of new replace those of old.
UpdateHeaders(old, new) == new @@ old

HasHeader(headers, h) == h \in DOMAIN headers

NoResponse == [status |-> 0, headers |-> NoHeaders, body |-> EmptyBody]

JSONResponse(status, headers, body) ==
    [status |-> status,
     headers |-> UpdateHeaders(headers, "content-type" :> <<"application/json">>),
     body |-> body]

PlainTextResponse(text, status, headers) ==
    [status |-> status,
     headers |-> UpdateHeaders(headers, "content-type" :> <<"text/plain">>),
     body |-> TextBody(text)]

Detail(items) == ObjectBody(<<JsonField("detail", "string", items)>>)

\* ------------------------------------------------------------------- state

Conns == {"c1"}

VARIABLES
    allow_origins,   \* the CORS middleware's origin allow-list
    routes,          \* the application's routing table
    conn,            \* per connection: the request being served and its progress
    served           \* history: the exchanges completed so far, oldest first

vars == <<allow_origins, routes, conn, served>>

NoRequest == Request("", "", <<>>, None, None, None, None, EmptyBody)

Idle ==
    [pc |-> "idle", req |-> NoRequest, cors |-> "none", endpoint |-> "none",
     name |-> <<>>, invoked |-> <<>>, resp |-> NoResponse]

GreetRoutes ==
    <<[path |-> "/greet", methods |-> {"GET"}, endpoint |-> "greet_get"],
      [path |-> "/greet", methods |-> {"POST"}, endpoint |-> "greet_post"]>>

Init ==
    /\ allow_origins = AllowedOrigins
    /\ routes = GreetRoutes
    /\ conn = [c \in Conns |-> Idle]
    /\ served = <<>>

\* uvicorn hands a parsed request to the application.
AcceptFrom(c, requests) ==
    /\ conn[c].pc = "idle"
    /\ \E r \in requests :
          conn' = [conn EXCEPT ![c] = [Idle EXCEPT !.pc = "cors", !.req = r]]
    /\ UNCHANGED <<allow_origins, routes, served>>

Accept(c) == AcceptFrom(c, Requests)

\* ---------------------------------------------------------- CORS middleware

\* allow_methods=["*"] is expanded to the methods the middleware knows.
ALL_METHODS == <<"DELETE", "GET", "HEAD", "OPTIONS", "PATCH", "POST", "PUT">>

\* The middleware's allow_methods when the argument is left out.
allow_methods_default == <<"GET">>

allow_methods == ALL_METHODS
allow_all_headers == TRUE
allow_credentials == TRUE

SeqRange(s) == {s[i] : i \in 1..Len(s)}

allow_all_origins(allowed) == "*" \in SeqRange(allowed)

\* An allow-list that lets every origin in (allow_origins=["*"]).
is_allowed_origin_any(origin, allowed) == TRUE

is_allowed_origin(origin, allowed) ==
    \/ allow_all_origins(allowed)
    \/ origin \in SeqRange(allowed)

\* Headers added to every response of a request that carries an Origin.
simple_headers(allowed) ==
    (IF allow_all_origins(allowed)
        THEN "access-control-allow-origin" :> <<"*">> ELSE NoHeaders)
    @@ (IF allow_credentials
        THEN "access-control-allow-credentials" :> <<"true">> ELSE NoHeaders)

\* Headers of every preflight response, whatever its outcome.
preflight_headers(allowed) ==
    (IF ~allow_all_origins(allowed) \/ allow_credentials
        THEN "vary" :> <<"Origin">>
        ELSE "access-control-allow-origin" :> <<"*">>)
    @@ ("access-control-allow-methods" :> allow_methods)
    @@ ("access-control-max-age" :> <<"600">>)
    @@ (IF allow_credentials
        THEN "access-control-allow-credentials" :> <<"true">> ELSE NoHeaders)

preflight_failures(req, allowed) ==
    (IF is_allowed_origin(req.origin, allowed) THEN <<>> ELSE <<"origin">>)
    \o (IF req.access_control_request_method \in SeqRange(allow_methods)
           THEN <<>> ELSE <<"method">>)

preflight_response(req, allowed) ==
    LET base == preflight_headers(allowed)
        withOrigin ==
            IF /\ is_allowed_origin(req.origin, allowed)
               /\ (~allow_all_origins(allowed) \/ allow_credentials)
               THEN UpdateHeaders(base, "access-control-allow-origin" :> <<req.origin>>)
               ELSE base
        headers ==
            IF allow_all_headers /\ req.access_control_request_headers # None
               THEN UpdateHeaders(withOrigin,
                        "access-control-allow-headers" :> <<req.access_control_request_headers>>)
               ELSE withOrigin
        failures == preflight_failures(req, allowed)
    IN  IF failures # <<>>
           THEN PlainTextResponse(
                    CASE failures = <<"origin">> -> "Disallowed CORS origin"
                      [] failures = <<"method">> -> "Disallowed CORS method"
                      [] OTHER -> "Disallowed CORS origin, method",
                    400, headers)
           ELSE PlainTextResponse("OK", 200, headers)

\* A send wrapper that echoes whatever Origin the request names.
simple_response_headers_reflecting(headers, origin, allowed) ==
    UpdateHeaders(UpdateHeaders(headers, simple_headers(allowed)),
                  ("access-control-allow-origin" :> <<origin>>) @@ ("vary" :> <<"Origin">>))

\* The send wrapper of a non-preflight request with an Origin.
simple_response_headers(headers, origin, allowed) ==
    LET base == UpdateHeaders(headers, simple_headers(allowed))
    IN  IF ~allow_all_origins(allowed) /\ is_allowed_origin(origin, allowed)
           THEN UpdateHeaders(base,
                    ("access-control-allow-origin" :> <<origin>>) @@ ("vary" :> <<"Origin">>))
           ELSE base

is_preflight(req) ==
    /\ req.origin # None
    /\ req.method = "OPTIONS"
    /\ req.access_control_request_method # None

\* No Origin header: the request goes to the application untouched.
CorsPassThrough(c) ==
    /\ conn[c].pc = "cors"
    /\ conn[c].req.origin = None
    /\ conn' = [conn EXCEPT ![c].pc = "route", ![c].cors = "none"]
    /\ UNCHANGED <<allow_origins, routes, served>>

\* A preflight is answered by the middleware itself.
CorsPreflight(c) ==
    /\ conn[c].pc = "cors"
    /\ is_preflight(conn[c].req)
    /\ conn' = [conn EXCEPT ![c].pc = "done",
                            ![c].resp = preflight_response(conn[c].req, allow_origins)]
    /\ UNCHANGED <<allow_origins, routes, served>>

\* A middleware that remembers the origins it has seen and lets them in
\* from then on.
CorsSimple_learning(c) ==
    /\ conn[c].pc = "cors"
    /\ conn[c].req.origin # None
    /\ ~(conn[c].req.method = "OPTIONS" /\ conn[c].req.access_control_request_method # None)
    /\ conn' = [conn EXCEPT ![c].pc = "route", ![c].cors = "simple"]
    /\ allow_origins' = IF conn[c].req.origin \in {allow_origins[i] : i \in 1..Len(allow_origins)}
                           THEN allow_origins
                           ELSE Append(allow_origins, conn[c].req.origin)
    /\ UNCHANGED <<routes, served>>

\* A middleware that refuses requests from origins outside the allow-list
\* itself instead of leaving the refusal to the browser.
CorsSimple_blocking(c) ==
    /\ conn[c].pc = "cors"
    /\ conn[c].req.origin # None
    /\ ~(conn[c].req.method = "OPTIONS" /\ conn[c].req.access_control_request_method # None)
    /\ IF conn[c].req.origin \in {allow_origins[i] : i \in 1..Len(allow_origins)}
          THEN conn' = [conn EXCEPT ![c].pc = "route", ![c].cors = "simple"]
          ELSE conn' = [conn EXCEPT ![c].pc = "done",
                            ![c].resp = [status |-> 403,
                                         headers |-> <<>>,
                                         body |-> [form |-> "empty", fields |-> <<>>]]]
    /\ UNCHANGED <<allow_origins, routes, served>>

\* Any other request with an Origin goes to the application; the middleware
\* wraps the send channel.
CorsSimple(c) ==
    /\ conn[c].pc = "cors"
    /\ conn[c].req.origin # None
    /\ ~is_preflight(conn[c].req)
    /\ conn' = [conn EXCEPT ![c].pc = "route", ![c].cors = "simple"]
    /\ UNCHANGED <<allow_origins, routes, served>>

\* ------------------------------------------------------------------ routing

\* A route table that serves HEAD wherever it serves GET.
route_matches_head(route, req) ==
    IF route.path # req.path THEN "none"
    ELSE IF \/ req.method \in route.methods
            \/ req.method = "HEAD" /\ "GET" \in route.methods THEN "full"
    ELSE "partial"

\* A router that looks at the payload: a request carrying a JSON object goes
\* to the body-bound route, any other to the query-bound one.
route_matches_payload(route, req) ==
    IF route.path # req.path THEN "none"
    ELSE IF req.method \notin {"GET", "POST"} THEN "partial"
    ELSE IF (req.body.form = "object") <=> ("POST" \in route.methods) THEN "full"
    ELSE "partial"

route_matches(route, req) ==
    IF route.path # req.path THEN "none"
    ELSE IF req.method \in route.methods THEN "full"
    ELSE "partial"

FirstMatch(table, req, kind) ==
    CHOOSE i \in 1..Len(table) :
        /\ route_matches(table[i], req) = kind
        /\ \A j \in 1..(i - 1) : route_matches(table[j], req) # kind

HasMatch(table, req, kind) ==
    \E i \in 1..Len(table) : route_matches(table[i], req) = kind

\* The router takes the first route matching path and method; a path known
\* under other methods only is 405, an unknown path is 404.
Route(c) ==
    /\ conn[c].pc = "route"
    /\ LET req == conn[c].req
       IN  IF HasMatch(routes, req, "full")
              THEN conn' = [conn EXCEPT
                       ![c].pc = "bind",
                       ![c].endpoint = routes[FirstMatch(routes, req, "full")].endpoint]
           ELSE IF HasMatch(routes, req, "partial")
              THEN conn' = [conn EXCEPT
                       ![c].pc = "send",
                       ![c].resp = JSONResponse(405,
                           "allow" :> <<CHOOSE m \in
                               routes[FirstMatch(routes, req, "partial")].methods : TRUE>>,
                           Detail(<<"Method Not Allowed">>))]
           ELSE conn' = [conn EXCEPT
                       ![c].pc = "send",
                       ![c].resp = JSONResponse(404, NoHeaders, Detail(<<"Not Found">>))]
    /\ UNCHANGED <<allow_origins, routes, served>>

\* ------------------------------------------------------------ query binding

QueryDefault == <<"W", "o", "r", "l", "d">>

\* A binding that takes the default for an empty value too (name or "World").
query_name_or_default(query) ==
    IF \E i \in 1..Len(query) : query[i].key = "name" /\ query[i].value # <<>>
       THEN unquote_plus(
                query[CHOOSE i \in 1..Len(query) :
                         /\ query[i].key = "name" /\ query[i].value # <<>>
                         /\ \A j \in (i + 1)..Len(query) :
                               ~(query[j].key = "name" /\ query[j].value # <<>>)].value)
       ELSE QueryDefault

\* name: str = Query(default="World"): the last value given for the key,
\* decoded; the default only when the key does not occur.
query_name(query) ==
    IF \E i \in 1..Len(query) : query[i].key = "name"
       THEN unquote_plus(
                query[CHOOSE i \in 1..Len(query) :
                         /\ query[i].key = "name"
                         /\ \A j \in (i + 1)..Len(query) : query[j].key # "name"].value)
       ELSE QueryDefault

\* A binding that passes the name to the handler through a module-level
\* variable, which every request in flight reads.
BindQuery_shared(c) ==
    /\ conn[c].pc = "bind"
    /\ conn[c].endpoint = "greet_get"
    /\ conn' = [d \in DOMAIN conn |->
                   IF d = c
                      THEN [conn[d] EXCEPT !.pc = "call",
                                           !.name = query_name(conn[c].req.query)]
                      ELSE [conn[d] EXCEPT !.name = query_name(conn[c].req.query)]]
    /\ UNCHANGED <<allow_origins, routes, served>>

BindQuery(c) ==
    /\ conn[c].pc = "bind"
    /\ conn[c].endpoint = "greet_get"
    /\ conn' = [conn EXCEPT ![c].pc = "call", ![c].name = query_name(conn[c].req.query)]
    /\ UNCHANGED <<allow_origins, routes, served>>

\* ------------------------------------------------------------- body binding

\* The body is read as JSON when the request names no content type or a
\* JSON one; otherwise it is handed to validation as bytes.
is_json_content_type(ct) == ct \in {None, "application/json"}

\* A model that coerces numbers to text (str(123) = "123").
is_str_coercing(field) == field.type \in {"string", "number"}

\* name: str of NameRequest: only a JSON string is a str.
is_str(field) == field.type = "string"

\* The outcome of binding request: NameRequest: "ok", or the validation
\* error that makes the request a 422.
body_error(req) ==
    LET body == req.body
    IN  IF body.form = "empty" THEN "missing"
        ELSE IF ~is_json_content_type(req.content_type) THEN "model_attributes_type"
        ELSE IF ~json_loads_ok(body) THEN "json_invalid"
        ELSE IF body.form # "object" THEN "model_attributes_type"
        ELSE IF ~HasKey(body.fields, "name") THEN "missing"
        ELSE IF ~is_str(LastWithKey(body.fields, "name")) THEN "string_type"
        ELSE "ok"

\* A validation error nobody handles: 500 Internal Server Error.
RequestValidationError_unhandled(error) ==
    PlainTextResponse("Internal Server Error", 500, NoHeaders)

RequestValidationError(error) ==
    JSONResponse(422, NoHeaders, ObjectBody(<<JsonField("detail", "array", <<error>>)>>))

\* A binding that falls back to the query parameter (or its default) when
\* the body does not validate.
BindBody_fallback(c) ==
    /\ conn[c].pc = "bind"
    /\ conn[c].endpoint = "greet_post"
    /\ LET req == conn[c].req
       IN  conn' = [conn EXCEPT
                       ![c].pc = "call",
                       ![c].name = IF body_error(req) = "ok"
                                      THEN json_member_text(req.body, "name")
                                      ELSE query_name(req.query)]
    /\ UNCHANGED <<allow_origins, routes, served>>

BindBody(c) ==
    /\ conn[c].pc = "bind"
    /\ conn[c].endpoint = "greet_post"
    /\ LET req == conn[c].req
           error == body_error(req)
       IN  IF error = "ok"
              THEN conn' = [conn EXCEPT ![c].pc = "call",
                                        ![c].name = json_member_text(req.body, "name")]
              ELSE conn' = [conn EXCEPT ![c].pc = "send",
                                        ![c].resp = RequestValidationError(error)]
    /\ UNCHANGED <<allow_origins, routes, served>>

\* ----------------------------------------------------------------- handlers

\* A handler that tidies the name before greeting: name.strip().
Strip(name) ==
    LET keep == {i \in 1..Len(name) : name[i] # " "}
    IN  IF keep = {} THEN <<>>
        ELSE LET lo == CHOOSE i \in keep : \A j \in keep : i <= j
                 hi == CHOOSE i \in keep : \A j \in keep : j <= i
             IN  SubSeq(name, lo, hi)

greet_get_stripped(name) == HelloPrefix \o Strip(name)

\* return {"message": f"Hello {name}"}
greet_get(name) == HelloPrefix \o name

\* A handler that capitalizes the name: request.name.capitalize().
Capitalize(name) ==
    [i \in 1..Len(name) |-> IF i = 1 /\ name[i] = "a" THEN "A"
                             ELSE IF i > 1 /\ name[i] = "A" THEN "a"
                             ELSE name[i]]

greet_post_capitalized(name) == HelloPrefix \o Capitalize(name)

\* return {"message": f"Hello {request.name}"}
greet_post(name) == HelloPrefix \o name

\* A route without response_model, whose handler returns more than the message.
GreetingResponse_unfiltered(message) ==
    JSONResponse(200, NoHeaders,
                 ObjectBody(<<JsonField("message", "string", json_escape(message)),
                              JsonField("extra", "string", <<"A">>)>>))

\* response_model=GreetingResponse: the one field message, written as JSON.
GreetingResponse(message) ==
    JSONResponse(200, NoHeaders,
                 ObjectBody(<<JsonField("message", "string", json_escape(message))>>))

GreetGet(c) ==
    /\ conn[c].pc = "call"
    /\ conn[c].endpoint = "greet_get"
    /\ conn' = [conn EXCEPT ![c].pc = "send",
                            ![c].invoked = Append(@, "greet_get"),
                            ![c].resp = GreetingResponse(greet_get(conn[c].name))]
    /\ UNCHANGED <<allow_origins, routes, served>>

GreetPost(c) ==
    /\ conn[c].pc = "call"
    /\ conn[c].endpoint = "greet_post"
    /\ conn' = [conn EXCEPT ![c].pc = "send",
                            ![c].invoked = Append(@, "greet_post"),
                            ![c].resp = GreetingResponse(greet_post(conn[c].name))]
    /\ UNCHANGED <<allow_origins, routes, served>>

\* ------------------------------------------------------------------ sending

\* The response start passes the middleware's send wrapper when there is one.
Send(c) ==
    /\ conn[c].pc = "send"
    /\ conn' = [conn EXCEPT
           ![c].pc = "done",
           ![c].resp.headers =
               IF conn[c].cors = "simple"
                  THEN simple_response_headers(@, conn[c].req.origin, allow_origins)
                  ELSE @]
    /\ UNCHANGED <<allow_origins, routes, served>>

\* The exchange is over; the connection takes the next request.  The
\* history keeps the exchange while it holds fewer than keep of them.
Finish(c, keep) ==
    /\ conn[c].pc = "done"
    /\ conn' = [conn EXCEPT ![c] = Idle]
    /\ served' = IF Len(served) < keep
                    THEN Append(served, [req |-> conn[c].req, resp |-> conn[c].resp])
                    ELSE served
    /\ UNCHANGED <<allow_origins, routes>>

Close(c) == Finish(c, 0)

Next ==
    \/ \E c \in Conns : Accept(c)
    \/ \E c \in Conns : CorsPassThrough(c)
    \/ \E c \in Conns : CorsPreflight(c)
    \/ \E c \in Conns : CorsSimple(c)
    \/ \E c \in Conns : Route(c)
    \/ \E c \in Conns : BindQuery(c)
    \/ \E c \in Conns : BindBody(c)
    \/ \E c \in Conns : GreetGet(c)
    \/ \E c \in Conns : GreetPost(c)
    \/ \E c \in Conns : Send(c)
    \/ \E c \in Conns : Close(c)

Spec == Init /\ [][Next]_vars

\* ----------------------------------------------------------------- reading

\* What a client reads: the completed exchanges.
Done(c) == conn[c].pc = "done"

\* The text of member k of a JSON response body, decoded by the client.
response_text(resp, k) == json_member_text(resp.body, k)

ResponseKeys(resp) == {resp.body.fields[i].key : i \in 1..Len(resp.body.fields)}

\* ------------------------------------------------------------------ claims

Names == StringsOver({"a", "A", " ", "\"", "+", "\\"}, MaxNameLen)

IsGetGreet(c) == Done(c) /\ conn[c].req.method = "GET" /\ conn[c].req.path = "/greet"

IsPostGreet(c) == Done(c) /\ conn[c].req.method = "POST" /\ conn[c].req.path = "/greet"

\* The query string gives the parameter k, and its effective (last) value
\* decodes to the text n.
QueryGives(query, k, n) ==
    \E i \in 1..Len(query) :
        /\ query[i].key = k
        /\ \A j \in (i + 1)..Len(query) : query[j].key # k
        /\ unquote_plus(query[i].value) = n

QueryHas(query, k) == \E i \in 1..Len(query) : query[i].key = k

Greeted(resp, n) ==
    /\ resp.status = 200
    /\ ResponseKeys(resp) = {"message"}
    /\ response_text(resp, "message") = HelloPrefix \o n

\* C1: for every text n, a GET /greet whose query parameter name decodes to n
\* is answered 200 with a message that is exactly "Hello " followed by n: every
\* character of n, spaces and upper case included, is kept as it is.
C1_GetGreetsNameVerbatim ==
    \A c \in DOMAIN conn : \A n \in Names :
        (IsGetGreet(c) /\ QueryGives(conn[c].req.query, "name", n))
            => Greeted(conn[c].resp, n)

\* A GET /greet?name=+%22 (a space and a double quote) has been answered.
C1_Witness ==
    \E c \in DOMAIN conn :
        /\ IsGetGreet(c)
        /\ conn[c].req.query = <<QueryField("name", <<"+", "%22">>)>>
        /\ Greeted(conn[c].resp, <<" ", "\"">>)

\* C2: a GET /greet without a name parameter is answered 200 "Hello World";
\* with the parameter present the default is not used: the greeting is
\* "Hello " plus the given value, and "Hello " alone for an empty value.
C2_DefaultExactlyWhenAbsent ==
    \A c \in DOMAIN conn :
        IsGetGreet(c) =>
            /\ ~QueryHas(conn[c].req.query, "name")
                  => Greeted(conn[c].resp, QueryDefault)
            /\ QueryHas(conn[c].req.query, "name")
                  => /\ ~Greeted(conn[c].resp, QueryDefault)
                     /\ \A n \in Names :
                           QueryGives(conn[c].req.query, "name", n)
                               => response_text(conn[c].resp, "message") = HelloPrefix \o n

\* A GET /greet with another parameter but no name has been answered
\* "Hello World".
C2_Witness ==
    \E c \in DOMAIN conn :
        /\ IsGetGreet(c)
        /\ conn[c].req.query = <<QueryField("lang", <<"a">>)>>
        /\ Greeted(conn[c].resp, QueryDefault)

ClientError(resp) == resp.status \in 400..499

\* The body is a JSON object whose (last) name member is of the given type.
BodyNameIs(body, type) ==
    /\ body.form = "object"
    /\ HasKey(body.fields, "name")
    /\ LastWithKey(body.fields, "name").type = type

\* C3 as stated: for every text s, a POST /greet whose body is a JSON object
\* with name = s is answered 200 {"message": "Hello " + s}, whatever else the
\* request carries.
C3_Original ==
    \A c \in DOMAIN conn :
        (IsPostGreet(c) /\ BodyNameIs(conn[c].req.body, "string"))
            => Greeted(conn[c].resp, json_member_text(conn[c].req.body, "name"))

\* C3, amended: for every text s, a POST /greet with Content-Type
\* application/json whose body is a JSON object with name = s is answered
\* 200 {"message": "Hello " + s}.
C3_PostGreetsJsonName ==
    \A c \in DOMAIN conn : \A s \in Names :
        (/\ IsPostGreet(c)
         /\ conn[c].req.content_type = "application/json"
         /\ BodyNameIs(conn[c].req.body, "string")
         /\ json_member_text(conn[c].req.body, "name") = s)
            => Greeted(conn[c].resp, s)

\* A POST /greet with a JSON content type and body {"name": "a\""} has been
\* answered with the greeting of a".
C3_Witness ==
    \E c \in DOMAIN conn :
        /\ IsPostGreet(c)
        /\ conn[c].req.content_type = "application/json"
        /\ conn[c].req.body = ObjectBody(<<JsonField("name", "string", <<"a", "\\\"">>)>>)
        /\ Greeted(conn[c].resp, <<"a", "\"">>)

\* C4: a POST /greet whose body is not a JSON document (empty or malformed),
\* or is a JSON object without a name member, is answered with a 4xx status:
\* never 200, never a server error.
C4_MalformedBodyIsClientError ==
    \A c \in DOMAIN conn :
        (/\ IsPostGreet(c)
         /\ \/ ~json_loads_ok(conn[c].req.body)
            \/ conn[c].req.body.form = "object" /\ ~HasKey(conn[c].req.body.fields, "name"))
            => ClientError(conn[c].resp)

\* A POST /greet with a JSON content type and a body that is no JSON has
\* been answered 422.
C4_Witness ==
    \E c \in DOMAIN conn :
        /\ IsPostGreet(c)
        /\ conn[c].req.content_type = "application/json"
        /\ conn[c].req.body = GarbageBody
        /\ conn[c].resp.status = 422

\* C5: a POST /greet whose JSON body has a name member that is not a string
\* is answered with a 4xx status, and the value is not turned into text and
\* greeted: no handler runs for it.
C5_WrongTypeIsClientError ==
    \A c \in DOMAIN conn :
        (/\ IsPostGreet(c)
         /\ conn[c].req.body.form = "object"
         /\ HasKey(conn[c].req.body.fields, "name")
         /\ ~BodyNameIs(conn[c].req.body, "string"))
            => /\ ClientError(conn[c].resp)
               /\ conn[c].invoked = <<>>
               /\ "message" \notin ResponseKeys(conn[c].resp)

\* A POST /greet with a JSON content type and body {"name": 123} has been
\* answered 422.
C5_Witness ==
    \E c \in DOMAIN conn :
        /\ IsPostGreet(c)
        /\ conn[c].req.content_type = "application/json"
        /\ conn[c].req.body = ObjectBody(<<JsonField("name", "number", <<"1", "2", "3">>)>>)
        /\ conn[c].resp.status = 422

C7_GetAlwaysSucceeds ==
    \A c \in DOMAIN conn :
        IsGetGreet(c) =>
            /\ conn[c].resp.status = 200
            /\ conn[c].invoked = <<"greet_get">>

\* A GET /greet from an origin outside the allow-list, carrying a body that
\* is no JSON, has been answered 200 by greet_get.
C7_Witness ==
    \E c \in DOMAIN conn :
        /\ IsGetGreet(c)
        /\ conn[c].req.origin = "http://localhost:3000"
        /\ conn[c].req.body = GarbageBody
        /\ conn[c].resp.status = 200
        /\ conn[c].invoked = <<"greet_get">>

\* C8: a request to /greet with a method other than GET, POST or OPTIONS is
\* answered 405 Method Not Allowed and no greeting handler runs.
C8_OtherMethodsNotAllowed ==
    \A c \in DOMAIN conn :
        (/\ Done(c)
         /\ conn[c].req.path = "/greet"
         /\ conn[c].req.method \notin {"GET", "POST", "OPTIONS"})
            => /\ conn[c].resp.status = 405
               /\ conn[c].invoked = <<>>

\* A HEAD /greet?name=a has been answered 405 without a handler running.
C8_Witness ==
    \E c \in DOMAIN conn :
        /\ Done(c)
        /\ conn[c].req.path = "/greet"
        /\ conn[c].req.method = "HEAD"
        /\ conn[c].req.query = <<QueryField("name", <<"a">>)>>
        /\ conn[c].resp.status = 405
        /\ conn[c].invoked = <<>>

IsOptionsGreet(c) == Done(c) /\ conn[c].req.method = "OPTIONS" /\ conn[c].req.path = "/greet"

InAllowList(origin) == origin \in {AllowedOrigins[i] : i \in 1..Len(AllowedOrigins)}

\* The response lets a browser send GET and POST from the origin.
PermitsGetAndPost(resp, origin) ==
    /\ HasHeader(resp.headers, "access-control-allow-origin")
    /\ resp.headers["access-control-allow-origin"] = <<origin>>
    /\ HasHeader(resp.headers, "access-control-allow-methods")
    /\ {"GET", "POST"} \subseteq SeqRange(resp.headers["access-control-allow-methods"])

\* A preflight: OPTIONS with an Origin and an Access-Control-Request-Method.
IsPreflightGreet(c) ==
    /\ IsOptionsGreet(c)
    /\ conn[c].req.origin # None
    /\ conn[c].req.access_control_request_method # None

\* C9 as stated: every preflight OPTIONS /greet from an origin of the
\* allow-list is answered 200 with headers permitting GET and POST from that
\* origin, and no handler runs.
C9_Original ==
    \A c \in DOMAIN conn :
        (IsPreflightGreet(c) /\ InAllowList(conn[c].req.origin))
            => /\ conn[c].resp.status = 200
               /\ PermitsGetAndPost(conn[c].resp, conn[c].req.origin)
               /\ conn[c].invoked = <<>>

\* C9, amended: a preflight OPTIONS /greet from an origin of the allow-list
\* that asks for one of DELETE, GET, HEAD, OPTIONS, PATCH, POST, PUT is
\* answered 200 with headers permitting GET and POST from that origin, and
\* no handler runs; asking for any other method, it is answered 400 (still
\* without a handler running).
C9_AllowedPreflightPermits ==
    \A c \in DOMAIN conn :
        (IsPreflightGreet(c) /\ InAllowList(conn[c].req.origin))
            => /\ conn[c].invoked = <<>>
               /\ PermitsGetAndPost(conn[c].resp, conn[c].req.origin)
               /\ IF conn[c].req.access_control_request_method
                        \in {"DELETE", "GET", "HEAD", "OPTIONS", "PATCH", "POST", "PUT"}
                     THEN conn[c].resp.status = 200
                     ELSE conn[c].resp.status = 400

\* A preflight for POST from https://chrwittm.github.io has been answered
\* 200 with the permitting headers.
C9_Witness ==
    \E c \in DOMAIN conn :
        /\ IsPreflightGreet(c)
        /\ conn[c].req.origin = "https://chrwittm.github.io"
        /\ conn[c].req.access_control_request_method = "POST"
        /\ conn[c].resp.status = 200
        /\ PermitsGetAndPost(conn[c].resp, "https://chrwittm.github.io")

PermissiveHeaders ==
    {"access-control-allow-origin", "access-control-allow-methods",
     "access-control-allow-headers", "access-control-allow-credentials"}

\* C10 as stated: an OPTIONS /greet whose Origin is absent or not an entry
\* of the allow-list is answered with a 4xx status and none of the
\* allow-origin, allow-methods, allow-headers, allow-credentials headers.
C10_Original ==
    \A c \in DOMAIN conn :
        (IsOptionsGreet(c) /\ ~InAllowList(conn[c].req.origin))
            => /\ ClientError(conn[c].resp)
               /\ DOMAIN conn[c].resp.headers \cap PermissiveHeaders = {}

\* C10, amended: an OPTIONS /greet whose Origin is absent or not an entry of
\* the allow-list is answered with a 4xx status (400 for a preflight, 405
\* otherwise), never 200, and without an allow-origin header; with no Origin
\* at all the response carries none of the four headers.  With a foreign
\* Origin the allow-credentials header (and, on a preflight, allow-methods
\* and the mirrored allow-headers) is still sent.
C10_ForeignOptionsRefused ==
    \A c \in DOMAIN conn :
        (IsOptionsGreet(c) /\ ~InAllowList(conn[c].req.origin))
            => /\ conn[c].resp.status = (IF IsPreflightGreet(c) THEN 400 ELSE 405)
               /\ ~HasHeader(conn[c].resp.headers, "access-control-allow-origin")
               /\ conn[c].invoked = <<>>
               /\ conn[c].req.origin = None
                     => DOMAIN conn[c].resp.headers \cap PermissiveHeaders = {}
               /\ conn[c].req.origin # None
                     => HasHeader(conn[c].resp.headers, "access-control-allow-credentials")

\* A preflight from https://localhost:8000 (an allowed host under another
\* scheme) has been answered 400 without an allow-origin header.
C10_Witness ==
    \E c \in DOMAIN conn :
        /\ IsPreflightGreet(c)
        /\ conn[c].req.origin = "https://localhost:8000"
        /\ conn[c].resp.status = 400
        /\ ~HasHeader(conn[c].resp.headers, "access-control-allow-origin")

\* An actual (non-preflight) request: a completed GET or POST.
IsActual(c) == Done(c) /\ conn[c].req.method \in {"GET", "POST"}

\* C11 as stated: the response to an actual GET or POST carries a permissive
\* CORS header only when the request's Origin is an entry of the allow-list;
\* with a foreign Origin or none it carries neither allow-origin nor
\* allow-credentials (nor any other permissive header).
C11_Original ==
    \A c \in DOMAIN conn :
        (IsActual(c) /\ ~InAllowList(conn[c].req.origin))
            => DOMAIN conn[c].resp.headers \cap PermissiveHeaders = {}

\* C11, amended: the response to an actual GET or POST carries the
\* allow-origin header exactly when the request's Origin is an entry of the
\* allow-list, and then it names that origin.  With no Origin the response
\* carries no permissive CORS header at all; with an Origin outside the
\* allow-list it carries allow-credentials as its only permissive header.
C11_AllowOriginOnlyForAllowList ==
    \A c \in DOMAIN conn :
        IsActual(c) =>
            LET headers == conn[c].resp.headers
                origin == conn[c].req.origin
            IN  /\ HasHeader(headers, "access-control-allow-origin") <=> InAllowList(origin)
                /\ InAllowList(origin) => headers["access-control-allow-origin"] = <<origin>>
                /\ origin = None => DOMAIN headers \cap PermissiveHeaders = {}
                /\ (origin # None /\ ~InAllowList(origin))
                      => DOMAIN headers \cap PermissiveHeaders
                            = {"access-control-allow-credentials"}

\* A GET /greet from http://localhost:3000 (an allowed host under another
\* port) has been answered 200 without an allow-origin header.
C11_Witness ==
    \E c \in DOMAIN conn :
        /\ IsGetGreet(c)
        /\ conn[c].req.origin = "http://localhost:3000"
        /\ conn[c].resp.status = 200
        /\ ~HasHeader(conn[c].resp.headers, "access-control-allow-origin")

\* The name a request to /greet resolves to, read off the request: for GET
\* the decoded last value of the query parameter name, or "World" without
\* one; for POST the decoded name member of the body.
ResolvesTo(req, n) ==
    IF req.method = "GET"
       THEN \/ QueryGives(req.query, "name", n)
            \/ ~QueryHas(req.query, "name") /\ n = QueryDefault
       ELSE /\ BodyNameIs(req.body, "string")
            /\ json_member_text(req.body, "name") = n

\* C12: every 200 response of GET /greet and POST /greet is a JSON object
\* with the single key message, whose value is "Hello " plus the resolved
\* name; extra body fields and extra query parameters do not show in it.
C12_OnlyMessageInBody ==
    \A c \in DOMAIN conn :
        ((IsGetGreet(c) \/ IsPostGreet(c)) /\ conn[c].resp.status = 200)
            => /\ conn[c].resp.body.form = "object"
               /\ Len(conn[c].resp.body.fields) = 1
               /\ conn[c].resp.body.fields[1].key = "message"
               /\ conn[c].resp.body.fields[1].type = "string"
               /\ \E n \in Names \cup {QueryDefault} :
                     /\ ResolvesTo(conn[c].req, n)
                     /\ response_text(conn[c].resp, "message") = HelloPrefix \o n

\* A POST /greet whose body has the extra member "extra" besides name = "A "
\* has been answered 200 with the one-member body {"message": "Hello A "}.
C12_Witness ==
    \E c \in DOMAIN conn :
        /\ IsPostGreet(c)
        /\ conn[c].req.body = ObjectBody(<<JsonField("name", "string", <<"A", " ">>),
                                           JsonField("extra", "string", <<"A">>)>>)
        /\ conn[c].resp.status = 200
        /\ Len(conn[c].resp.body.fields) = 1
        /\ Greeted(conn[c].resp, <<"A", " ">>)

\* A POST /greet the body binding must reject: the body is no JSON, or has
\* no name member, or its name member is not a string.
RejectedPost(req) ==
    /\ req.method = "POST"
    /\ req.path = "/greet"
    /\ ~BodyNameIs(req.body, "string")

\* C14: a POST /greet that is rejected is rejected before the handler: at no
\* point of its course is greet_post (or any handler) invoked or about to be,
\* and its response is the 422 rejection, never a greeting of a default or
\* of the name query parameter.  The same holds of every POST /greet that
\* ends in another status than 200.
C14_RejectedBeforeHandler ==
    \A c \in DOMAIN conn :
        /\ RejectedPost(conn[c].req)
              => /\ conn[c].invoked = <<>>
                 /\ conn[c].pc # "call"
                 /\ Done(c) => /\ conn[c].resp.status = 422
                               /\ "message" \notin ResponseKeys(conn[c].resp)
        /\ (IsPostGreet(c) /\ conn[c].resp.status # 200) => conn[c].invoked = <<>>

\* A POST /greet?name=a with body {} has been answered 422 without a
\* handler having run.
C14_Witness ==
    \E c \in DOMAIN conn :
        /\ IsPostGreet(c)
        /\ conn[c].req.query = <<QueryField("name", <<"a">>)>>
        /\ conn[c].req.body = ObjectBody(<<>>)
        /\ conn[c].resp.status = 422
        /\ conn[c].invoked = <<>>

\* C15: the binding that serves a request to /greet depends on the method
\* alone.  A GET is served by greet_get and greets the query parameter (or
\* "World"), whatever body it carries; a POST is bound by the body binding
\* and, when answered 200, was served by greet_post and greets the body's
\* name, whatever name the query string gives.
C15_DispatchOnMethodOnly ==
    \A c \in DOMAIN conn :
        /\ IsGetGreet(c)
              => /\ conn[c].endpoint = "greet_get"
                 /\ conn[c].invoked = <<"greet_get">>
                 /\ \E n \in Names \cup {QueryDefault} :
                       /\ \/ QueryGives(conn[c].req.query, "name", n)
                          \/ ~QueryHas(conn[c].req.query, "name") /\ n = QueryDefault
                       /\ Greeted(conn[c].resp, n)
        /\ IsPostGreet(c)
              => /\ conn[c].endpoint = "greet_post"
                 /\ conn[c].resp.status = 200
                       => /\ conn[c].invoked = <<"greet_post">>
                          /\ BodyNameIs(conn[c].req.body, "string")
                          /\ Greeted(conn[c].resp, json_member_text(conn[c].req.body, "name"))
                 /\ conn[c].resp.status # 200 => conn[c].invoked = <<>>

\* A GET /greet?name=A that carries the JSON body {"name": "a"} has been
\* served by greet_get with "Hello A".
C15_Witness ==
    \E c \in DOMAIN conn :
        /\ IsGetGreet(c)
        /\ conn[c].req.query = <<QueryField("name", <<"A">>)>>
        /\ conn[c].req.body = ObjectBody(<<JsonField("name", "string", <<"a">>)>>)
        /\ conn[c].invoked = <<"greet_get">>
        /\ Greeted(conn[c].resp, <<"A">>)

\* ------------------------------------------------- a sequence of requests

\* Requests of every method, origin, validity and outcome, sent one after
\* another in any order and any number of times.
SeqRequests ==
    {Request("GET", "/greet", <<QueryField("name", <<"a">>)>>, None, None, None, None, EmptyBody),
     Request("GET", "/greet", <<>>, "http://localhost:8000", None, None, None, EmptyBody),
     Request("GET", "/greet", <<QueryField("name", <<"+", "%22">>)>>, "null",
             None, None, None, EmptyBody),
     Request("GET", "/", <<>>, None, None, None, None, EmptyBody),
     Request("POST", "/greet", <<>>, "https://chrwittm.github.io", None, None,
             "application/json", ObjectBody(<<JsonField("name", "string", <<"A">>)>>)),
     Request("POST", "/greet", <<>>, None, None, None, "application/json", GarbageBody),
     Request("POST", "/greet", <<>>, "http://localhost:3000", None, None, "application/json",
             ObjectBody(<<JsonField("name", "number", <<"1", "2", "3">>)>>)),
     Request("OPTIONS", "/greet", <<>>, "http://127.0.0.1:8000", "POST", "content-type",
             None, EmptyBody),
     Request("OPTIONS", "/greet", <<>>, "http://localhost:3000", "GET", None, None, EmptyBody),
     Request("OPTIONS", "/greet", <<>>, None, None, None, None, EmptyBody),
     Request("PUT", "/greet", <<>>, "http://localhost:3000", None, None, "application/json",
             ObjectBody(<<JsonField("name", "string", <<"a">>)>>))}

AcceptSeq(c) == AcceptFrom(c, SeqRequests)

CloseRecorded(c) == Finish(c, MaxServed)

NextSeq ==
    \/ \E c \in Conns : AcceptSeq(c)
    \/ \E c \in Conns : CorsPassThrough(c)
    \/ \E c \in Conns : CorsPreflight(c)
    \/ \E c \in Conns : CorsSimple(c)
    \/ \E c \in Conns : Route(c)
    \/ \E c \in Conns : BindQuery(c)
    \/ \E c \in Conns : BindBody(c)
    \/ \E c \in Conns : GreetGet(c)
    \/ \E c \in Conns : GreetPost(c)
    \/ \E c \in Conns : Send(c)
    \/ \E c \in Conns : CloseRecorded(c)

\* One connection serving requests one after another, with their history.
SpecSeq == Init /\ [][NextSeq]_vars

\* The exchanges a client has seen: those of the history and the ones just
\* completed.
Exchanges ==
    {served[i] : i \in 1..Len(served)}
    \cup {[req |-> conn[c].req, resp |-> conn[c].resp] : c \in {d \in DOMAIN conn : Done(d)}}

\* C13: after any sequence of earlier requests, a request gets the response
\* the same request gets on a freshly started service (the first exchange of
\* the history is one on a fresh service): any two exchanges of the same
\* request have the same status, headers and body; and the routing table and
\* the origin allow-list are at all times the ones set up at start.
C13_RepeatableResponses ==
    /\ allow_origins = AllowedOrigins
    /\ routes = GreetRoutes
    /\ \A x, y \in Exchanges : x.req = y.req => x.resp = y.resp

\* A GET /greet from the foreign origin "null" was the first request of a
\* fresh service, a different request (with another outcome) came second,
\* and the first request, sent again, got the same response as at first.
C13_Witness ==
    \E c \in DOMAIN conn :
        /\ Done(c)
        /\ Len(served) = 2
        /\ served[1].req.origin = "null"
        /\ served[1].resp.status = 200
        /\ served[2].req # served[1].req
        /\ served[2].resp.status # served[1].resp.status
        /\ conn[c].req = served[1].req
        /\ conn[c].resp = served[1].resp

\* ----------------------------------------------------- concurrent requests

\* Number of requests the server has in flight at a time.
MaxInflight == 2

ConcConns == 1..MaxInflight

ConcOrigins == {None, "http://localhost:8000", "null"}

\* The same requests under no Origin, an allowed one and a foreign one.
ConcRequests ==
    {Request("GET", "/greet", <<QueryField("name", <<"a">>)>>, o, None, None, None, EmptyBody) :
        o \in ConcOrigins}
    \cup {Request("POST", "/greet", <<>>, o, None, None, "application/json",
                  ObjectBody(<<JsonField("name", "string", <<"A">>)>>)) : o \in ConcOrigins}
    \cup {Request("POST", "/greet", <<>>, o, None, None, "application/json", ObjectBody(<<>>)) :
            o \in ConcOrigins}
    \cup {Request("OPTIONS", "/greet", <<>>, o, "POST", None, None, EmptyBody) :
            o \in ConcOrigins}

InitConc ==
    /\ allow_origins = AllowedOrigins
    /\ routes = GreetRoutes
    /\ conn = [c \in ConcConns |-> Idle]
    /\ served = <<>>

AcceptConc(c) == AcceptFrom(c, ConcRequests)

\* The steps of the request on connection c.
Step(c) ==
    \/ CorsPassThrough(c)
    \/ CorsPreflight(c)
    \/ CorsSimple(c)
    \/ Route(c)
    \/ BindQuery(c)
    \/ BindBody(c)
    \/ GreetGet(c)
    \/ GreetPost(c)
    \/ Send(c)
    \/ Close(c)

NextConc ==
    \/ \E c \in ConcConns : AcceptConc(c)
    \/ \E c \in ConcConns : CorsPassThrough(c)
    \/ \E c \in ConcConns : CorsPreflight(c)
    \/ \E c \in ConcConns : CorsSimple(c)
    \/ \E c \in ConcConns : Route(c)
    \/ \E c \in ConcConns : BindQuery(c)
    \/ \E c \in ConcConns : BindBody(c)
    \/ \E c \in ConcConns : GreetGet(c)
    \/ \E c \in ConcConns : GreetPost(c)
    \/ \E c \in ConcConns : Send(c)
    \/ \E c \in ConcConns : Close(c)

\* Several connections served in any interleaving of their steps.
SpecConc == InitConc /\ [][NextConc]_vars

\* The application's answer to a request, as a function of the request and
\* the routing table: routing, binding, handler and serialization.
AppResponse(req, table) ==
    IF HasMatch(table, req, "full")
       THEN IF table[FirstMatch(table, req, "full")].endpoint = "greet_get"
               THEN GreetingResponse(greet_get(query_name(req.query)))
            ELSE IF body_error(req) = "ok"
               THEN GreetingResponse(greet_post(json_member_text(req.body, "name")))
            ELSE RequestValidationError(body_error(req))
    ELSE IF HasMatch(table, req, "partial")
       THEN JSONResponse(405,
                "allow" :> <<CHOOSE m \in table[FirstMatch(table, req, "partial")].methods : TRUE>>,
                Detail(<<"Method Not Allowed">>))
    ELSE JSONResponse(404, NoHeaders, Detail(<<"Not Found">>))

\* The whole service's answer: the middleware around the application.
Respond(req, allowed, table) ==
    IF is_preflight(req) THEN preflight_response(req, allowed)
    ELSE IF req.origin = None THEN AppResponse(req, table)
    ELSE [AppResponse(req, table) EXCEPT
             !.headers = simple_response_headers(@, req.origin, allowed)]

\* The response a request gets when it is the only one the service serves.
ServedAlone(req) == Respond(req, AllowedOrigins, GreetRoutes)

\* Two requests that differ at most in their Origin header.
SameButOrigin(r1, r2) == [r1 EXCEPT !.origin = None] = [r2 EXCEPT !.origin = None]

IsActualGreet(c) == IsGetGreet(c) \/ IsPostGreet(c)

\* C16: the status and the body of the response to an actual GET or POST
\* /greet do not depend on the Origin header: two requests that differ only
\* in Origin are served by the same handler (or both by none) and get the
\* same status and the same body; a request from an origin outside the
\* allow-list gets the answer the request gets without an Origin.
C16_OriginDoesNotChangeAnswer ==
    \A c, d \in DOMAIN conn :
        (/\ IsActualGreet(c)
         /\ IsActualGreet(d)
         /\ SameButOrigin(conn[c].req, conn[d].req))
            => /\ conn[c].resp.status = conn[d].resp.status
               /\ conn[c].resp.body = conn[d].resp.body
               /\ conn[c].invoked = conn[d].invoked

\* GET /greet?name=a has been answered on one connection for a request
\* without Origin and on another for one from the foreign origin "null":
\* both 200 "Hello a", with different headers.
C16_Witness ==
    \E c, d \in DOMAIN conn :
        /\ IsGetGreet(c)
        /\ IsGetGreet(d)
        /\ conn[c].req.origin = None
        /\ conn[d].req.origin = "null"
        /\ SameButOrigin(conn[c].req, conn[d].req)
        /\ Greeted(conn[c].resp, <<"a">>)
        /\ Greeted(conn[d].resp, <<"a">>)
        /\ conn[c].resp.headers # conn[d].resp.headers

\* C17: with several requests in flight in any interleaving, every completed
\* request has exactly the response it gets when served alone (so nothing in
\* it comes from another request), and no request waits on another: a
\* request in flight can always take its next step, and a free connection
\* can always accept.
C17_ConcurrentRequestsIndependent ==
    \A c \in DOMAIN conn :
        /\ Done(c) => conn[c].resp = ServedAlone(conn[c].req)
        /\ conn[c].pc # "idle" => ENABLED Step(c)
        /\ conn[c].pc = "idle" => ENABLED AcceptConc(c)

\* Two requests were in flight together and both are complete: a GET
\* /greet?name=a from "null" answered "Hello a" and a POST {"name": "A"} from
\* http://localhost:8000 answered "Hello A" with that origin allowed.
C17_Witness ==
    \E c, d \in DOMAIN conn :
        /\ c # d
        /\ IsGetGreet(c)
        /\ IsPostGreet(d)
        /\ conn[c].req.origin = "null"
        /\ conn[d].req.origin = "http://localhost:8000"
        /\ Greeted(conn[c].resp, <<"a">>)
        /\ Greeted(conn[d].resp, <<"A">>)
        /\ conn[d].resp.headers["access-control-allow-origin"] = <<"http://localhost:8000">>
        /\ ~HasHeader(conn[c].resp.headers, "access-control-allow-origin")

====
